---- MODULE Spec2Model ----
(***************************************************************************)
(* Model of the hex-tile texture tools: clean_hex_tiles.py (white matte    *)
(* removal, halo damping, crop and pad), extract_hex_tiles.py and          *)
(* process_new_textures.py (2x2 grid splitting), thin_frame_hex.py (frame  *)
(* thinning).                                                              *)
(*                                                                         *)
(* A raster is a record [w, h, px]; px maps <<y, x>> (row, column, both    *)
(* from 0, as numpy indexes data[y, x]) to a pixel <<R, G, B, A>> of       *)
(* 8-bit samples.                                                          *)
(***************************************************************************)
EXTENDS Integers, Sequences, FiniteSets, TLC

VARIABLES
    clIn,      \* cleaner: the file before the first clean_hex_tile call
    clPrev,    \* cleaner: the file before the latest clean_hex_tile call
    clFile,    \* cleaner: the file at input_path (output_path is None)
    clAlphaA,  \* cleaner: new_alpha after line 48 of the latest call
    clAlphaP1, \* cleaner: new_alpha after the first pass of the loop
    clAlphaB,  \* cleaner: new_alpha after the loop of lines 52-67
    clClean,   \* cleaner: clean_img (line 76) of the latest call
    clRets,    \* cleaner: second component returned by each call so far
    exIn,      \* extractor: the source canvas
    exTiles,   \* extractor: tiles saved by extract_hex_tiles (index, raster)
    exDone,    \* extractor: extract_hex_tiles has returned
    ptTiles,   \* extractor: the files <prefix>_<index>.png of output_dir
    ptDone,    \* extractor: process_texture_image has returned
    pqDone,    \* extractor: process_texture_image_quality has returned
    thIn,      \* thinner: the input raster
    thShrink,  \* thinner: frame_shrink_pixels
    thOut,     \* thinner: the raster saved by thin_hex_frame
    thDone,    \* thinner: thin_hex_frame has returned
    ipImg,     \* pixel-by-pixel halo pass: the raster
    ipStart,   \* pixel-by-pixel halo pass: new_alpha when the pass starts
    ipAlpha,   \* pixel-by-pixel halo pass: the running new_alpha
    ipTodo,    \* pixel-by-pixel halo pass: the pixels not yet visited
    drDriver,  \* batch: "thin", "clean" or "extract"
    drOutDir,  \* batch: an output directory was given
    drInit,    \* batch: the input directory before the first run
    drPre,     \* batch: the input directory when the latest run started
    drDir,     \* batch: the input directory, file name -> content
    drOut,     \* batch: the output directory, file name -> content
    drTodo,    \* batch: the listed files the loop has not reached yet
    drDone,    \* batch: the listed files whose call returned in this run
    drPhase,   \* batch: "idle", "loop", "returned" or "raised"
    drRuns     \* batch: the number of runs started

vars == <<clIn, clPrev, clFile, clAlphaA, clAlphaP1, clAlphaB, clClean, clRets,
          exIn, exTiles, exDone, ptTiles, ptDone, pqDone,
          thIn, thShrink, thOut, thDone,
          ipImg, ipStart, ipAlpha, ipTodo,
          drDriver, drOutDir, drInit, drPre, drDir, drOut, drTodo, drDone,
          drPhase, drRuns>>

clVars == <<clIn, clPrev, clFile, clAlphaA, clAlphaP1, clAlphaB, clClean, clRets>>
exVars == <<exIn, exTiles, exDone, ptTiles, ptDone, pqDone>>
thVars == <<thIn, thShrink, thOut, thDone>>
ipVars == <<ipImg, ipStart, ipAlpha, ipTodo>>
drVars == <<drDriver, drOutDir, drInit, drPre, drDir, drOut, drTodo, drDone,
            drPhase, drRuns>>

(***************************************************************************)
(* Rasters                                                                 *)
(***************************************************************************)
Min(a, b) == IF a <= b THEN a ELSE b
Max(a, b) == IF a >= b THEN a ELSE b

SetMin(S) == CHOOSE m \in S : \A n \in S : m <= n
SetMax(S) == CHOOSE m \in S : \A n \in S : m >= n

Pos(w, h) == (0 .. h - 1) \X (0 .. w - 1)

MkImg(w, h, px) == [w |-> w, h |-> h, px |-> px]

NoImg == MkImg(0, 0, [pos \in {} |-> <<0, 0, 0, 0>>])

Transparent == <<0, 0, 0, 0>>

Alpha(p) == p[4]

\* the alpha plane of a raster: data[:,:,3]
AlphaPlane(img) == [pos \in DOMAIN img.px |-> img.px[pos][4]]

\* data[:,:,3] = new_alpha ; np.clip(data, 0, 255).astype(np.uint8):
\* every sample is already an integer in 0..255, so clip and cast keep it
WithAlpha(img, al) ==
    MkImg(img.w, img.h,
          [pos \in DOMAIN img.px |->
              <<img.px[pos][1], img.px[pos][2], img.px[pos][3],
                Max(0, Min(255, al[pos]))>>])

\* Image.getbbox() of an RGBA image: the box (left, upper, right, lower),
\* right and lower exclusive, of the pixels with non-zero alpha; <<>> (None)
\* when there is none.
getbbox(img) ==
    LET content == {pos \in DOMAIN img.px : img.px[pos][4] # 0}
        ys == {pos[1] : pos \in content}
        xs == {pos[2] : pos \in content}
    IN  IF content = {} THEN <<>>
        ELSE <<SetMin(xs), SetMin(ys), SetMax(xs) + 1, SetMax(ys) + 1>>

\* Image.crop(box)
crop(img, box) ==
    MkImg(box[3] - box[1], box[4] - box[2],
          [pos \in Pos(box[3] - box[1], box[4] - box[2]) |->
              img.px[<<pos[1] + box[2], pos[2] + box[1]>>]])

(***************************************************************************)
(* clean_hex_tiles.py                                                      *)
(***************************************************************************)
threshold == 250
tolerance == 10
padding == 2

\* line 37
is_white(p) ==
    /\ p[1] >= threshold - tolerance
    /\ p[2] >= threshold - tolerance
    /\ p[3] >= threshold - tolerance

\* line 40 computes (r + g + b) / 3 in float32; the sum of three 8-bit
\* samples is exact and the comparisons of lines 41 and 66 are against
\* integers, so the model keeps 3 * avg_brightness and scales the bound.
avg_brightness_x3(p) == p[1] + p[2] + p[3]

\* line 41
is_very_light(p) == avg_brightness_x3(p) >= 3 * threshold

\* a plausible slip: the alpha test of line 44 written >= 200
should_be_transparent_ge(p) == (is_white(p) \/ is_very_light(p)) /\ p[4] >= 200

\* line 44
should_be_transparent(p) == (is_white(p) \/ is_very_light(p)) /\ p[4] > 200

\* lines 47-48: new_alpha = a.copy(); new_alpha[should_be_transparent] = 0
MatteAlpha(img) ==
    [pos \in DOMAIN img.px |->
        IF should_be_transparent(img.px[pos]) THEN 0 ELSE img.px[pos][4]]

\* line 54: np.pad(new_alpha, 1, constant_values=0), read at canvas (y, x)
padded_alpha(al, w, h, y, x) ==
    IF y >= 0 /\ y < h /\ x >= 0 /\ x < w THEN al[<<y, x>>] ELSE 0

\* a plausible slip: a neighbour counted as transparent up to the alpha the
\* damping leaves (100)
neighbors_transparent_damped(al, w, h, y, x) ==
    \/ padded_alpha(al, w, h, y - 1, x) <= 100
    \/ padded_alpha(al, w, h, y + 1, x) <= 100
    \/ padded_alpha(al, w, h, y, x - 1) <= 100
    \/ padded_alpha(al, w, h, y, x + 1) <= 100

\* lines 57-62: the four comparisons are boolean arrays and numpy's + on
\* booleans is the logical or, so the value is a boolean, not a count
neighbors_transparent(al, w, h, y, x) ==
    \/ padded_alpha(al, w, h, y - 1, x) < 50
    \/ padded_alpha(al, w, h, y + 1, x) < 50
    \/ padded_alpha(al, w, h, y, x - 1) < 50
    \/ padded_alpha(al, w, h, y, x + 1) < 50

\* a plausible slip: the brightness test of line 66 left out
is_light_edge_any(img, al, pos) ==
    /\ neighbors_transparent(al, img.w, img.h, pos[1], pos[2])
    /\ al[pos] > 0

\* lines 65-66: is_edge = neighbors_transparent > 0 is the boolean itself
is_light_edge(img, al, pos) ==
    /\ neighbors_transparent(al, img.w, img.h, pos[1], pos[2])
    /\ avg_brightness_x3(img.px[pos]) > 3 * 200
    /\ al[pos] > 0

\* a plausible slip: the damping written as a halving of the alpha
HaloPassHalve(img, al) ==
    [pos \in DOMAIN img.px |->
        IF is_light_edge(img, al, pos) THEN al[pos] \div 2 ELSE al[pos]]

\* one iteration of the loop of lines 52-67; every mask is computed from
\* the alpha plane as it stands when the iteration starts
HaloPass(img, al) ==
    [pos \in DOMAIN img.px |->
        IF is_light_edge(img, al, pos) THEN Min(al[pos], 100) ELSE al[pos]]

\* lines 52-67: for _ in range(2)
HaloPasses(img, al) == HaloPass(img, HaloPass(img, al))

\* lines 70-76
clean_img(img) == WithAlpha(img, HaloPasses(img, MatteAlpha(img)))

\* a plausible slip: the crop pasted at the origin of the padded canvas
padded_img_origin(cropped) ==
    MkImg(cropped.w + padding * 2, cropped.h + padding * 2,
          [pos \in Pos(cropped.w + padding * 2, cropped.h + padding * 2) |->
              IF pos[1] < cropped.h /\ pos[2] < cropped.w
              THEN cropped.px[pos]
              ELSE Transparent])

\* lines 87-91: Image.new(..., (0, 0, 0, 0)) then paste at (padding, padding)
padded_img(cropped) ==
    MkImg(cropped.w + padding * 2, cropped.h + padding * 2,
          [pos \in Pos(cropped.w + padding * 2, cropped.h + padding * 2) |->
              IF /\ pos[1] >= padding /\ pos[1] < padding + cropped.h
                 /\ pos[2] >= padding /\ pos[2] < padding + cropped.w
              THEN cropped.px[<<pos[1] - padding, pos[2] - padding>>]
              ELSE Transparent])

\* lines 79-102, given clean_img: the raster written to output_path and
\* the returned pair; new_size = <<>> with vacia = TRUE stands for the
\* string "vacía"
save_clean(img, cl) ==
    IF getbbox(cl) # <<>>
    THEN [saved |-> padded_img(crop(cl, getbbox(cl))),
          original_size |-> <<img.w, img.h>>,
          new_size |-> <<(getbbox(cl)[3] - getbbox(cl)[1]) + padding * 2,
                         (getbbox(cl)[4] - getbbox(cl)[2]) + padding * 2>>,
          vacia |-> FALSE]
    ELSE [saved |-> cl,
          original_size |-> <<img.w, img.h>>,
          new_size |-> <<>>,
          vacia |-> TRUE]

\* clean_hex_tile, lines 10-102
clean_hex_tile(img) == save_clean(img, clean_img(img))

(***************************************************************************)
(* Cleaner runs: clean_folder(folder) with output_folder = None calls      *)
(* clean_hex_tile(path, path), so every run reads the file the previous    *)
(* run wrote.                                                              *)
(***************************************************************************)
MaxW == 3
MaxH == 3
MaxArea == 4
MaxRuns == 2

ClPalette ==
    { <<255, 255, 255, 255>>,   \* white, opaque
      <<240, 240, 240, 201>>,   \* at the white bound, alpha just above 200
      <<255, 255, 255, 200>>,   \* white, alpha at 200
      <<239, 255, 255, 255>>,   \* light, not white (sum 749)
      <<201, 200, 200, 60>>,    \* light (sum 601), alpha 60
      <<200, 200, 200, 255>>,   \* not light (sum 600)
      <<10, 20, 30, 49>>,       \* dark, alpha below 50
      <<10, 20, 30, 0>>,        \* transparent with colour
      <<0, 0, 0, 0>> }

ClSizes ==
    {s \in (1 .. MaxW) \X (1 .. MaxH) : s[1] * s[2] <= MaxArea}

ThIdle ==
    /\ thIn = NoImg /\ thShrink = 0 /\ thOut = NoImg /\ thDone = FALSE

ExIdle ==
    /\ exIn = NoImg /\ exTiles = <<>> /\ exDone = FALSE
    /\ ptTiles = <<>> /\ ptDone = FALSE /\ pqDone = FALSE

ClIdle ==
    /\ clIn = NoImg /\ clPrev = NoImg /\ clFile = NoImg
    /\ clAlphaA = <<>> /\ clAlphaP1 = <<>> /\ clAlphaB = <<>>
    /\ clClean = NoImg
    /\ clRets = <<>>

IpIdle ==
    /\ ipImg = NoImg /\ ipStart = <<>> /\ ipAlpha = <<>> /\ ipTodo = {}

DrIdle ==
    /\ drDriver = "none" /\ drOutDir = FALSE
    /\ drInit = <<>> /\ drPre = <<>> /\ drDir = <<>> /\ drOut = <<>>
    /\ drTodo = {} /\ drDone = {}
    /\ drPhase = "idle" /\ drRuns = 0

InitClean ==
    /\ \E s \in ClSizes :
          \E px \in [Pos(s[1], s[2]) -> ClPalette] :
             clIn = MkImg(s[1], s[2], px)
    /\ clPrev = clIn
    /\ clFile = clIn
    /\ clAlphaA = AlphaPlane(clIn)
    /\ clAlphaP1 = AlphaPlane(clIn)
    /\ clAlphaB = AlphaPlane(clIn)
    /\ clClean = clIn
    /\ clRets = <<>>
    /\ ExIdle
    /\ ThIdle
    /\ IpIdle
    /\ DrIdle

\* clean_hex_tile(input_path, None): lines 10-102, stage by stage; the
\* file written is clean_hex_tile(clFile).saved
CleanHexTile ==
    /\ Len(clRets) < MaxRuns
    /\ clPrev' = clFile
    /\ clAlphaA' = MatteAlpha(clFile)
    /\ clAlphaP1' = HaloPass(clFile, clAlphaA')
    /\ clAlphaB' = HaloPass(clFile, clAlphaP1')
    /\ clClean' = WithAlpha(clFile, clAlphaB')
    /\ clFile' = save_clean(clFile, clClean').saved
    /\ clRets' = Append(clRets,
                        [original_size |-> <<clFile.w, clFile.h>>,
                         new_size |-> save_clean(clFile, clClean').new_size,
                         vacia |-> save_clean(clFile, clClean').vacia])
    /\ UNCHANGED clIn
    /\ UNCHANGED exVars
    /\ UNCHANGED thVars
    /\ UNCHANGED ipVars
    /\ UNCHANGED drVars

NextClean == CleanHexTile

SpecClean == InitClean /\ [][NextClean]_vars

(***************************************************************************)
(* Claims about clean_hex_tile                                             *)
(***************************************************************************)
CleanRan == Len(clRets) >= 1

LastRet == clRets[Len(clRets)]

\* the claim's reading of "near-white with alpha > 200", in numbers
NearWhiteOpaque(p) ==
    /\ \/ (p[1] >= 240 /\ p[2] >= 240 /\ p[3] >= 240)
       \/ p[1] + p[2] + p[3] >= 750
    /\ p[4] > 200

\* C1: after the matte step (threshold 250, tolerance 10) a pixel's alpha is
\* 0 exactly when ((R>=240 and G>=240 and B>=240) or (R+G+B)/3 >= 250) and
\* alpha > 200, every other pixel keeps its alpha, and every pixel
\* (255,255,255,255) has alpha 0 in the cleaned raster.
C1_MatteRule ==
    CleanRan =>
        \A pos \in DOMAIN clPrev.px :
            LET p == clPrev.px[pos]
            IN  /\ clAlphaA[pos] = (IF NearWhiteOpaque(p) THEN 0 ELSE p[4])
                /\ (p = <<255, 255, 255, 255>>) => clClean.px[pos][4] = 0

\* a call matted one pixel and kept another whose alpha is 200 and white
C1_Witness ==
    /\ CleanRan
    /\ \E pos \in DOMAIN clPrev.px :
          clPrev.px[pos] = <<255, 255, 255, 255>> /\ clAlphaA[pos] = 0
    /\ \E pos \in DOMAIN clPrev.px :
          clPrev.px[pos] = <<255, 255, 255, 200>> /\ clAlphaA[pos] = 200

\* C2: when the first input has no near-white pixel with alpha > 200 and
\* its cleaned result is not empty, cleaning the result again leaves it
\* as it is, in pixels and in dimensions.
C2_Idempotent ==
    ( /\ Len(clRets) = 2
      /\ ~ clRets[1].vacia
      /\ \A pos \in DOMAIN clIn.px : ~ NearWhiteOpaque(clIn.px[pos]) )
    => clFile = clPrev

\* two calls were made on such an input, the first of which damped a halo
\* pixel to alpha 100 and changed the dimensions
C2_Witness ==
    /\ Len(clRets) = 2
    /\ ~ clRets[1].vacia
    /\ \A pos \in DOMAIN clIn.px : ~ NearWhiteOpaque(clIn.px[pos])
    /\ clPrev.w # clIn.w
    /\ \E pos \in DOMAIN clPrev.px : clPrev.px[pos][4] = 100
    /\ clFile = clPrev

\* the columns and rows of the cleaned raster that hold a pixel of alpha > 0
ContentXs == {pos[2] : pos \in {q \in DOMAIN clClean.px : clClean.px[q][4] > 0}}
ContentYs == {pos[1] : pos \in {q \in DOMAIN clClean.px : clClean.px[q][4] > 0}}

\* C3: when the cleaned raster has a pixel of alpha > 0 the saved raster is
\* 4 wider and 4 higher than the bounding box, its outer 2-pixel ring is
\* (0,0,0,0) on all four sides and the cropped content sits at offset (2,2).
C3_PaddedOutput ==
    (CleanRan /\ ContentXs # {}) =>
        LET x0 == SetMin(ContentXs)
            y0 == SetMin(ContentYs)
            bw == SetMax(ContentXs) - x0 + 1
            bh == SetMax(ContentYs) - y0 + 1
        IN  /\ clFile.w = bw + 4
            /\ clFile.h = bh + 4
            /\ DOMAIN clFile.px = Pos(bw + 4, bh + 4)
            /\ \A pos \in DOMAIN clFile.px :
                  IF \/ pos[1] < 2 \/ pos[1] >= bh + 2
                     \/ pos[2] < 2 \/ pos[2] >= bw + 2
                  THEN clFile.px[pos] = <<0, 0, 0, 0>>
                  ELSE clFile.px[pos] =
                          clClean.px[<<pos[1] - 2 + y0, pos[2] - 2 + x0>>]

\* a call cropped a raster whose content does not start at the origin and
\* is smaller than the raster
C3_Witness ==
    /\ CleanRan
    /\ ContentXs # {}
    /\ SetMin(ContentXs) + SetMin(ContentYs) > 0
    /\ clFile.w < clClean.w + 4
    /\ ~ LastRet.vacia

\* C4: when the cleaned raster has no pixel of alpha > 0 the call writes
\* back the raster it read, unchanged in every channel, and returns the
\* empty tag.
C4_EmptyKeepsOriginal ==
    (CleanRan /\ ContentXs = {}) =>
        /\ LastRet.vacia
        /\ clFile = clPrev

(***************************************************************************)
(* extract_hex_tiles.py and process_new_textures.py                        *)
(***************************************************************************)
cols == 2
rows == 2
content_alpha == 20

\* lines 39-40 (process_new_textures.py lines 38-39)
tile_width(img) == img.w \div cols
tile_height(img) == img.h \div rows

\* lines 52-58: data[y1:y2, x1:x2].copy()
tile_data(img, row, col) ==
    LET x1 == col * tile_width(img)
        y1 == row * tile_height(img)
    IN  MkImg(tile_width(img), tile_height(img),
              [pos \in Pos(tile_width(img), tile_height(img)) |->
                  img.px[<<y1 + pos[1], x1 + pos[2]>>]])

\* a plausible slip: the content test written >= 20
is_content_ge(p) == p[4] >= content_alpha

\* the test "alpha > 20" of lines 25, 62, 67 and 68
is_content(p) == p[4] > content_alpha

\* a plausible slip: only the first pixel of the cell is tested
has_content_corner(tile) ==
    /\ <<0, 0>> \in DOMAIN tile.px
    /\ is_content(tile.px[<<0, 0>>])

\* lines 25 and 62: np.any(alpha > 20)
has_content(tile) ==
    \E pos \in DOMAIN tile.px : is_content(tile.px[pos])

\* line 67: np.any(tile_alpha > 20, axis=1), as the set of rows that are True
rows_with_content(tile) ==
    {y \in 0 .. tile.h - 1 :
        \E x \in 0 .. tile.w - 1 : is_content(tile.px[<<y, x>>])}

\* line 68: np.any(tile_alpha > 20, axis=0), as the set of columns
cols_with_content(tile) ==
    {x \in 0 .. tile.w - 1 :
        \E y \in 0 .. tile.h - 1 : is_content(tile.px[<<y, x>>])}

\* a plausible slip: only the right and bottom sides are trimmed
cropped_tile_loose(tile) ==
    LET y_max == SetMax(rows_with_content(tile)) + 1
        x_max == SetMax(cols_with_content(tile)) + 1
    IN  crop(tile, <<0, 0, x_max, y_max>>)

\* a plausible slip: x_max taken as the last content column itself, which
\* the slice of line 79 then excludes
cropped_tile_short(tile) ==
    LET y_min == SetMin(rows_with_content(tile))
        y_max == SetMax(rows_with_content(tile)) + 1
        x_min == SetMin(cols_with_content(tile))
        x_max == SetMax(cols_with_content(tile))
    IN  crop(tile, <<x_min, y_min, x_max, y_max>>)

\* lines 73-79: np.argmax of a boolean vector is the index of its first
\* True; on the reversed vector it counts from the end
cropped_tile(tile) ==
    LET y_min == SetMin(rows_with_content(tile))
        y_max == SetMax(rows_with_content(tile)) + 1
        x_min == SetMin(cols_with_content(tile))
        x_max == SetMax(cols_with_content(tile)) + 1
    IN  crop(tile, <<x_min, y_min, x_max, y_max>>)

\* lines 49-94, from cell k (row-major) on, with the running tile_index.
\* A saved tile is recorded with the number in its file name (index), its
\* raster, and the cell it was cut from.
RECURSIVE ExtractCells(_, _, _)
ExtractCells(img, k, tile_index) ==
    IF k >= rows * cols THEN <<>>
    ELSE LET row == k \div cols
             col == k % cols
             tile == tile_data(img, row, col)
         IN  IF ~ has_content(tile)
             THEN ExtractCells(img, k + 1, tile_index)
             ELSE IF rows_with_content(tile) = {} \/ cols_with_content(tile) = {}
             THEN ExtractCells(img, k + 1, tile_index)
             ELSE <<[index |-> tile_index + 1,
                     img |-> cropped_tile(tile),
                     row |-> row, col |-> col]>>
                  \o ExtractCells(img, k + 1, tile_index + 1)

\* extract_hex_tiles, lines 5-96
extract_hex_tiles(img) ==
    IF ~ has_content(img) THEN <<>> ELSE ExtractCells(img, 0, 0)

\* process_new_textures.py lines 48-133, from cell k on: each cell goes
\* through the matte removal, the two halo passes, getbbox, crop and
\* padding; tile_index advances for every cell (line 133)
RECURSIVE ProcessCells(_, _, _)
ProcessCells(img, k, tile_index) ==
    IF k >= rows * cols THEN <<>>
    ELSE LET row == k \div cols
             col == k % cols
             tile_img == clean_img(tile_data(img, row, col))
             bbox == getbbox(tile_img)
         IN  IF bbox # <<>>
             THEN <<[index |-> tile_index + 1,
                     img |-> padded_img(crop(tile_img, bbox)),
                     row |-> row, col |-> col]>>
                  \o ProcessCells(img, k + 1, tile_index + 1)
             ELSE ProcessCells(img, k + 1, tile_index + 1)

\* process_texture_image, process_new_textures.py lines 10-135
process_texture_image(img) == ProcessCells(img, 0, 0)

\* process_textures_quality.py line 10
white_threshold == 245

\* process_textures_quality.py line 69
is_pure_white(p) ==
    /\ p[1] >= white_threshold
    /\ p[2] >= white_threshold
    /\ p[3] >= white_threshold
    /\ p[4] >= 250

\* process_textures_quality.py lines 72-79: only the pure white pixels lose
\* their alpha; there is no halo pass
quality_img(tile) ==
    WithAlpha(tile, [pos \in DOMAIN tile.px |->
                        IF is_pure_white(tile.px[pos]) THEN 0
                        ELSE tile.px[pos][4]])

\* process_textures_quality.py lines 50-111, from cell k on; tile_index
\* advances for every cell (line 111)
RECURSIVE QualityCells(_, _, _)
QualityCells(img, k, tile_index) ==
    IF k >= rows * cols THEN <<>>
    ELSE LET row == k \div cols
             col == k % cols
             tile_img == quality_img(tile_data(img, row, col))
             bbox == getbbox(tile_img)
         IN  IF bbox # <<>>
             THEN <<[index |-> tile_index + 1,
                     img |-> padded_img(crop(tile_img, bbox)),
                     row |-> row, col |-> col]>>
                  \o QualityCells(img, k + 1, tile_index + 1)
             ELSE QualityCells(img, k + 1, tile_index + 1)

\* process_texture_image_quality, process_textures_quality.py lines 10-113
process_texture_image_quality(img) == QualityCells(img, 0, 0)

\* the file <prefix>_<n>.png among tiles, if there is one
HasTile(tiles, n) == \E i \in 1 .. Len(tiles) : tiles[i].index = n
TileAt(tiles, n) ==
    tiles[CHOOSE i \in 1 .. Len(tiles) : tiles[i].index = n]

\* padded_img.save(output_path) for every tile of a call (line 123, and
\* process_textures_quality.py line 101): a file of the same name is
\* replaced, every other file of the directory stays; the directory is
\* listed by index from n on
RECURSIVE SaveTiles(_, _, _)
SaveTiles(dir, tiles, n) ==
    IF n > rows * cols THEN <<>>
    ELSE (IF HasTile(tiles, n) THEN <<TileAt(tiles, n)>>
          ELSE IF HasTile(dir, n) THEN <<TileAt(dir, n)>>
          ELSE <<>>)
         \o SaveTiles(dir, tiles, n + 1)

(***************************************************************************)
(* Extractor runs: a canvas whose background pixels all have alpha 0 or    *)
(* all have alpha 20, with a few opaque dots; every pixel carries its own  *)
(* column and row in R and G.                                              *)
(***************************************************************************)
MaxCanvasW == 4
MaxCanvasH == 4
MaxCanvasArea == 16
MaxDots == 4

BgAlphas == {0, 20}

\* the subsets of 0 .. n-1 with at most k elements
RECURSIVE SmallSubsets(_, _)
SmallSubsets(n, k) ==
    IF n = 0 \/ k = 0 THEN {{}}
    ELSE SmallSubsets(n - 1, k)
         \cup {s \cup {n - 1} : s \in SmallSubsets(n - 1, k - 1)}

Canvas(w, h, dots, bg) ==
    MkImg(w, h,
          [pos \in Pos(w, h) |->
              IF pos[1] * w + pos[2] \in dots
              THEN <<pos[2], pos[1], 7, 255>>
              ELSE <<pos[2], pos[1], 3, bg>>])

InitExtract ==
    /\ \E w \in 1 .. MaxCanvasW, h \in 1 .. MaxCanvasH :
          /\ w * h <= MaxCanvasArea
          /\ \E dots \in SmallSubsets(w * h, MaxDots) :
                \E bg \in BgAlphas :
                   exIn = Canvas(w, h, dots, bg)
    /\ exTiles = <<>>
    /\ exDone = FALSE
    /\ ptTiles = <<>>
    /\ ptDone = FALSE
    /\ pqDone = FALSE
    /\ ClIdle
    /\ ThIdle
    /\ IpIdle
    /\ DrIdle

\* extract_hex_tiles(input_path)
ExtractHexTiles ==
    /\ ~ exDone
    /\ exTiles' = extract_hex_tiles(exIn)
    /\ exDone' = TRUE
    /\ UNCHANGED <<exIn, ptTiles, ptDone, pqDone>>
    /\ UNCHANGED clVars
    /\ UNCHANGED thVars
    /\ UNCHANGED ipVars
    /\ UNCHANGED drVars

\* process_texture_image(input_path, output_dir, prefix)
ProcessTextureImage ==
    /\ ~ ptDone
    /\ ptTiles' = SaveTiles(ptTiles, process_texture_image(exIn), 1)
    /\ ptDone' = TRUE
    /\ UNCHANGED <<exIn, exTiles, exDone, pqDone>>
    /\ UNCHANGED clVars
    /\ UNCHANGED thVars
    /\ UNCHANGED ipVars
    /\ UNCHANGED drVars

\* process_texture_image_quality(input_path, output_dir, prefix) on the
\* same output_dir and prefix
ProcessTextureImageQuality ==
    /\ ~ pqDone
    /\ ptTiles' = SaveTiles(ptTiles, process_texture_image_quality(exIn), 1)
    /\ pqDone' = TRUE
    /\ UNCHANGED <<exIn, exTiles, exDone, ptDone>>
    /\ UNCHANGED clVars
    /\ UNCHANGED thVars
    /\ UNCHANGED ipVars
    /\ UNCHANGED drVars

NextExtract == ExtractHexTiles

SpecExtract == InitExtract /\ [][NextExtract]_vars

(***************************************************************************)
(* Texture runs: both grid splitters on the same canvas; the dots are      *)
(* white, pale or dark opaque pixels, or soft or faint translucent ones.   *)
(***************************************************************************)
MaxTexW == 4
MaxTexH == 4
MaxTexDots == 2

TexKinds == {"white", "pale", "soft", "dark", "faint"}

TexCanvas(w, h, dots, kind) ==
    MkImg(w, h,
          [pos \in Pos(w, h) |->
              IF pos[1] * w + pos[2] \in dots
              THEN CASE kind[pos[1] * w + pos[2]] = "white" ->
                            <<255, 255, 255, 255>>
                     [] kind[pos[1] * w + pos[2]] = "pale" ->
                            <<242, 242, 242, 255>>
                     [] kind[pos[1] * w + pos[2]] = "soft" ->
                            <<230, 230, 230, 180>>
                     [] kind[pos[1] * w + pos[2]] = "dark" ->
                            <<pos[2], pos[1], 7, 255>>
                     [] OTHER -> <<pos[2], pos[1], 7, 20>>
              ELSE Transparent])

InitTexture ==
    /\ \E w \in 1 .. MaxTexW, h \in 1 .. MaxTexH :
          \E dots \in SmallSubsets(w * h, MaxTexDots) :
             \E kind \in [dots -> TexKinds] :
                exIn = TexCanvas(w, h, dots, kind)
    /\ exTiles = <<>>
    /\ exDone = FALSE
    /\ ptTiles = <<>>
    /\ ptDone = FALSE
    /\ pqDone = FALSE
    /\ ClIdle
    /\ ThIdle
    /\ IpIdle
    /\ DrIdle

NextTexture ==
    \/ ExtractHexTiles
    \/ ProcessTextureImage
    \/ ProcessTextureImageQuality

SpecTexture == InitTexture /\ [][NextTexture]_vars

(***************************************************************************)
(* Claims about the grid splitters                                         *)
(***************************************************************************)
CellNo(t) == t.row * cols + t.col

\* the tiles come in row-major order of their cells and the i-th carries i
NumberedInOrder(tiles) ==
    /\ \A i \in 1 .. Len(tiles) : tiles[i].index = i
    /\ \A i, j \in 1 .. Len(tiles) : i < j => CellNo(tiles[i]) < CellNo(tiles[j])

\* C5: the grid splitters save their tiles in row-major cell order with
\* indices 1, 2, ..., k and no gaps: a cell without content produces no
\* tile and consumes no index.
C5_NoIndexGaps ==
    /\ exDone => NumberedInOrder(exTiles)
    /\ ptDone => NumberedInOrder(ptTiles)

\* the part of C5 that extract_hex_tiles alone is responsible for
ExtractNumberedInOrder == exDone => NumberedInOrder(exTiles)

\* the canvas positions of cell (row, col)
CellPos(img, row, col) ==
    {pos \in DOMAIN img.px :
        /\ pos[1] >= row * (img.h \div 2) /\ pos[1] < (row + 1) * (img.h \div 2)
        /\ pos[2] >= col * (img.w \div 2) /\ pos[2] < (col + 1) * (img.w \div 2)}

OpaqueInEveryQuadrant(img) ==
    \A row \in 0 .. 1, col \in 0 .. 1 :
        \E pos \in CellPos(img, row, col) : img.px[pos][4] = 255

\* C6: a canvas with an opaque pixel inside each of the four quadrants
\* yields exactly 4 tiles, none of zero width or height, each holding a
\* pixel of alpha above 20.
C6_FourTiles ==
    (exDone /\ OpaqueInEveryQuadrant(exIn)) =>
        /\ Len(exTiles) = 4
        /\ \A i \in 1 .. 4 :
              /\ exTiles[i].img.w >= 1
              /\ exTiles[i].img.h >= 1
              /\ DOMAIN exTiles[i].img.px = Pos(exTiles[i].img.w, exTiles[i].img.h)
              /\ \E pos \in DOMAIN exTiles[i].img.px :
                    exTiles[i].img.px[pos][4] > 20

\* such a canvas, with cells of 2 by 2, was split
C6_Witness ==
    /\ exDone
    /\ exIn.w = 4 /\ exIn.h = 4
    /\ OpaqueInEveryQuadrant(exIn)
    /\ Len(exTiles) = 4

\* tile t is the rectangle of canvas img at offset (ox, oy), inside its
\* cell, enclosing all content of the cell, with content on its four edges
MinimalBoxAt(img, t, ox, oy) ==
    LET cell == CellPos(img, t.row, t.col)
        content == {pos \in cell : img.px[pos][4] > 20}
        box == {pos \in DOMAIN img.px :
                   /\ pos[1] >= oy /\ pos[1] < oy + t.img.h
                   /\ pos[2] >= ox /\ pos[2] < ox + t.img.w}
    IN  /\ box \subseteq cell
        /\ content \subseteq box
        /\ \E pos \in content : pos[1] = oy
        /\ \E pos \in content : pos[1] = oy + t.img.h - 1
        /\ \E pos \in content : pos[2] = ox
        /\ \E pos \in content : pos[2] = ox + t.img.w - 1
        /\ DOMAIN t.img.px = Pos(t.img.w, t.img.h)
        /\ \A pos \in DOMAIN t.img.px :
              t.img.px[pos] = img.px[<<pos[1] + oy, pos[2] + ox>>]

\* C7: every saved tile is the minimal rectangle enclosing the pixels of
\* its cell with alpha > 20: content on its first and last row and column,
\* no content of the cell outside it, pixels equal to the source's.
C7_TightCrop ==
    exDone =>
        \A i \in 1 .. Len(exTiles) :
            \E ox \in 0 .. exIn.w - 1, oy \in 0 .. exIn.h - 1 :
                MinimalBoxAt(exIn, exTiles[i], ox, oy)

\* a tile was cropped on every side: smaller than its 2 by 2 cell, away
\* from the cell's origin, next to a pixel of alpha 20 that stays outside
C7_Witness ==
    /\ exDone
    /\ exIn.w = 4 /\ exIn.h = 4
    /\ \E i \in 1 .. Len(exTiles) :
          /\ exTiles[i].img.w = 1 /\ exTiles[i].img.h = 1
          /\ exTiles[i].img.px[<<0, 0>>][1] % 2 = 1
          /\ exTiles[i].img.px[<<0, 0>>][2] % 2 = 1
          /\ \E pos \in CellPos(exIn, exTiles[i].row, exTiles[i].col) :
                exIn.px[pos][4] = 20

\* C8: a canvas without any pixel of alpha above 20 yields no tile.
C8_EmptyCanvas ==
    (exDone /\ \A pos \in DOMAIN exIn.px : exIn.px[pos][4] <= 20)
        => exTiles = <<>>

\* a canvas whose pixels all have alpha 20 was split
C8_Witness ==
    /\ exDone
    /\ \A pos \in DOMAIN exIn.px : exIn.px[pos][4] = 20
    /\ exIn.w >= 2 /\ exIn.h >= 2
    /\ exTiles = <<>>

(***************************************************************************)
(* thin_frame_hex.py                                                       *)
(*                                                                         *)
(* The code computes the sampling position and the interpolation in        *)
(* float64, stores the result in a float32 array (line 101) and truncates  *)
(* it to uint8 (line 104). The model computes the same IEEE 754 doubles:   *)
(* a double is <<s, m, e>> and stands for s * m * 2^e, with the sign s in  *)
(* {-1, 0, 1} and the 53-bit significand m written as four limbs of base   *)
(* Base, the least significant first (zero is <<0, <<0,0,0,0>>, 0>>).      *)
(* Every operation forms the exact result as a number of limbs and rounds  *)
(* it to 53 bits, ties to even, as the hardware does. Exponents stay far   *)
(* from the ends of the double's range, so nothing overflows or is         *)
(* subnormal.                                                              *)
(***************************************************************************)
Scale == 1000
Base == 16384

RECURSIVE ISqrtIter(_, _, _)
ISqrtIter(n, lo, hi) ==
    IF lo >= hi THEN lo
    ELSE LET mid == (lo + hi + 1) \div 2
         IN  IF mid * mid <= n THEN ISqrtIter(n, mid, hi)
             ELSE ISqrtIter(n, lo, mid - 1)

\* floor of the square root, n < 2^31
ISqrt(n) == ISqrtIter(n, 0, Min(n, 46340))

\* limb i of the number N, 0 past its end
At(N, i) == IF i >= 1 /\ i <= Len(N) THEN N[i] ELSE 0

\* the limbs 1 .. n of f, as a sequence
limbs(f, n) == SubSeq(f, 1, n)

\* the column sums v from the i-th on, with the carry c coming in, as limbs,
\* then the carry out (-1 when the number is negative)
RECURSIVE nrm(_, _, _)
nrm(v, i, c) ==
    IF i > Len(v) THEN <<c>>
    ELSE <<(v[i] + c) % Base>> \o nrm(v, i + 1, (v[i] + c) \div Base)

Abs(n) == IF n < 0 THEN 0 - n ELSE n

\* the number of bits of a limb
limb_bits(x) ==
    IF x >= 128
    THEN IF x >= 2048
         THEN IF x >= 8192 THEN 14 ELSE IF x >= 4096 THEN 13 ELSE 12
         ELSE IF x >= 512 THEN (IF x >= 1024 THEN 11 ELSE 10)
         ELSE IF x >= 256 THEN 9 ELSE 8
    ELSE IF x >= 8
         THEN IF x >= 32 THEN (IF x >= 64 THEN 7 ELSE 6)
              ELSE IF x >= 16 THEN 5 ELSE 4
         ELSE IF x >= 2 THEN (IF x >= 4 THEN 3 ELSE 2)
         ELSE IF x >= 1 THEN 1 ELSE 0

\* the index of the highest non-zero limb at or below i, 0 when there is none
RECURSIVE top(_, _)
top(N, i) == IF i = 0 THEN 0 ELSE IF N[i] # 0 THEN i ELSE top(N, i - 1)

\* the number of bits of N
bitlen(N) ==
    LET t == top(N, Len(N))
    IN  IF t = 0 THEN 0 ELSE 14 * (t - 1) + limb_bits(N[t])

\* N * (Base^ls) * p in n limbs, for p = 2^bs and q = 2^(14 - bs)
shl_by(N, ls, p, q, n) ==
    limbs([i \in 1 .. n |->
              ((At(N, i - ls) * p) % Base) + (At(N, i - ls - 1) \div q)],
          n)

\* N * 2^k in n limbs
shl(N, k, n) == shl_by(N, k \div 14, 2 ^ (k % 14), 2 ^ (14 - (k % 14)), n)

\* floor(N / (Base^ls) / p) in n limbs, for p = 2^bs and q = 2^(14 - bs)
shr_by(N, ls, p, q, n) ==
    limbs([i \in 1 .. n |->
              (At(N, i + ls) \div p) + (At(N, i + ls + 1) % p) * q],
          n)

\* floor(N / 2^k) in n limbs
shr(N, k, n) == shr_by(N, k \div 14, 2 ^ (k % 14), 2 ^ (14 - (k % 14)), n)

\* bit k of N, bit 0 the lowest
bit(N, k) == (At(N, (k \div 14) + 1) \div (2 ^ (k % 14))) % 2

\* N has a non-zero bit below bit k
low_nonzero(N, k) ==
    \/ \E i \in 1 .. (k \div 14) : At(N, i) # 0
    \/ At(N, (k \div 14) + 1) % (2 ^ (k % 14)) # 0

Zero == <<0, <<0, 0, 0, 0>>, 0>>

\* the significand r = q + 1 with its carry: 2^53 becomes 2^52 with the
\* exponent one higher
carried(s, r, E) ==
    IF r[4] >= 2048 THEN <<s, <<0, 0, 0, 1024>>, E + 1>>
    ELSE <<s, <<r[1], r[2], r[3], r[4]>>, E>>

\* round to nearest, ties to even: q is N without its lowest sh bits; it
\* goes up when the bits cut off are more than half a unit, or half a unit
\* and q is odd (sticky: the exact value lies above N)
round_q(s, N, E, sticky, sh, q) ==
    IF bit(N, sh - 1) = 1
       /\ (low_nonzero(N, sh - 1) \/ sticky \/ q[1] % 2 = 1)
    THEN carried(s, nrm(<<q[1] + 1, q[2], q[3], q[4]>>, 1, 0), E)
    ELSE <<s, q, E>>

round_len(s, N, E, sticky, L) ==
    IF L = 0 THEN Zero
    ELSE IF L <= 53 THEN <<s, shl(N, 53 - L, 4), E - (53 - L)>>
    ELSE round_q(s, N, E + (L - 53), sticky, L - 53, shr(N, L - 53, 4))

\* the double nearest to s * N * 2^E
round53(s, N, E, sticky) == round_len(s, N, E, sticky, bitlen(N))

\* float(n) for an integer |n| < 2^28
from_int(n) ==
    IF n = 0 THEN Zero
    ELSE round53(IF n > 0 THEN 1 ELSE -1,
                 <<Abs(n) % Base, Abs(n) \div Base>>, 0, FALSE)

One == <<1, <<0, 0, 0, 1024>>, -52>>

\* a / 2
halve(a) == IF a[1] = 0 THEN a ELSE <<a[1], a[2], a[3] - 1>>

\* the column sums of the product of two significands
columns(x, y) ==
    <<x[1] * y[1],
      x[1] * y[2] + x[2] * y[1],
      x[1] * y[3] + x[2] * y[2] + x[3] * y[1],
      x[1] * y[4] + x[2] * y[3] + x[3] * y[2] + x[4] * y[1],
      x[2] * y[4] + x[3] * y[3] + x[4] * y[2],
      x[3] * y[4] + x[4] * y[3],
      x[4] * y[4]>>

\* a * b in float64
mul(a, b) ==
    IF a[1] = 0 \/ b[1] = 0 THEN Zero
    ELSE round53(a[1] * b[1], nrm(columns(a[2], b[2]), 1, 0),
                 a[3] + b[3], FALSE)

\* Nh - Nl, or Nl - Nh when that is the positive one (r is Nh - Nl with its
\* carry out)
signed_diff(sh, sl, Nh, Nl, E, r) ==
    IF r[9] < 0
    THEN round53(sl,
                 nrm(limbs([i \in 1 .. 8 |-> At(Nl, i) - Nh[i]], 8), 1, 0),
                 E, FALSE)
    ELSE round53(sh, r, E, FALSE)

\* sh * Nh * 2^E + sl * Nl * 2^E
add_aligned(sh, Nh, sl, Nl, E) ==
    IF sh = sl
    THEN round53(sh,
                 nrm(limbs([i \in 1 .. 8 |-> Nh[i] + At(Nl, i)], 8), 1, 0),
                 E, FALSE)
    ELSE signed_diff(sh, sl, Nh, Nl, E,
                     nrm(limbs([i \in 1 .. 8 |-> Nh[i] - At(Nl, i)], 8),
                         1, 0))

\* hi + lo for hi of the higher exponent: a term more than 55 binary places
\* below the other is less than a quarter of its last place and changes
\* nothing
add_ordered(hi, lo) ==
    IF hi[3] - lo[3] > 55 THEN hi
    ELSE add_aligned(hi[1], shl(hi[2], hi[3] - lo[3], 8), lo[1], lo[2], lo[3])

\* a + b in float64
add(a, b) ==
    IF a[1] = 0 THEN b
    ELSE IF b[1] = 0 THEN a
    ELSE IF a[3] >= b[3] THEN add_ordered(a, b)
    ELSE add_ordered(b, a)

\* a - b in float64
sub(a, b) == add(a, <<0 - b[1], b[2], b[3]>>)

\* the estimate of a quotient limb from the two highest limbs of R and the
\* highest of D, which is at least 2^13: never below the limb, at most 2 above
q_hat(R, D) ==
    Min(Base - 1, (R[Len(D) + 1] * Base + R[Len(D)]) \div D[Len(D)])

\* schoolbook division of N by D, whose highest limb is at least 2^13: the
\* limbs i .. 1 of N are still to bring down, R < D is the remainder so far
\* and Q the limbs of the quotient found. A step brings limb i down to R and
\* tries q from its estimate downwards until R - q * D >= 0 (r is that
\* difference with its carry out). The result is the quotient and the
\* remainder.
RECURSIVE div_loop(_, _, _, _, _)
RECURSIVE div_fix(_, _, _, _, _, _)
RECURSIVE div_try(_, _, _, _, _, _, _)
div_try(N, D, i, R, Q, q, r) ==
    IF r[Len(D) + 2] >= 0
    THEN div_loop(N, D, i - 1, SubSeq(r, 1, Len(D)), <<q>> \o Q)
    ELSE div_fix(N, D, i, R, Q, q - 1)

div_fix(N, D, i, R, Q, q) ==
    div_try(N, D, i, R, Q, q,
            nrm(limbs([j \in 1 .. Len(D) + 1 |-> R[j] - q * At(D, j)],
                      Len(D) + 1),
                1, 0))

div_loop(N, D, i, R, Q) ==
    IF i = 0 THEN <<Q, R>>
    ELSE div_fix(N, D, i, <<N[i]>> \o R, Q, q_hat(<<N[i]>> \o R, D))

\* N div D in `steps' limbs and the remainder, for D of n limbs, the highest
\* at least 2^13, and N of steps + n - 1 limbs: the n - 1 highest limbs of N
\* are the first remainder
div_limbs(N, D, n, steps) ==
    div_loop(N, D, steps, SubSeq(N, steps + 1, steps + n - 1) \o <<0>>, <<>>)

\* the double nearest the quotient qr[1] * 2^E, which the exact value lies
\* above when the remainder qr[2] is not zero
quotient(s, qr, E) ==
    round53(s, qr[1], E, \E i \in 1 .. Len(qr[2]) : qr[2][i] # 0)

\* a / b in float64, b not zero: both significands times 8 have 56 bits, so
\* a's times 2^56 over b's has 56 or 57, and the remainder tells whether the
\* quotient is exact
fdiv(a, b) ==
    IF a[1] = 0 THEN Zero
    ELSE quotient(a[1] * b[1],
                  div_limbs(<<0, 0, 0, 0>> \o shl(a[2], 3, 4),
                            shl(b[2], 3, 4), 4, 5),
                  a[3] - b[3] - 56)

\* N div x for N of 9 limbs and x of 5, the highest not zero, k the number
\* of bits that x's highest limb is short of 14
div_root(N, x, k) == div_limbs(shl(N, k, 10), shl(x, k, 5), 5, 6)[1]

\* Newton's step for the square root of N: (x + N div x) div 2
newton_from(x, Q) ==
    shr(nrm(limbs([i \in 1 .. 5 |-> x[i] + Q[i]], 5), 1, 0), 1, 5)

newton_step(N, x) == newton_from(x, div_root(N, x, 14 - limb_bits(x[5])))

\* the column sums of the square of a number of five limbs
squares(x) ==
    limbs([k \in 1 .. 9 |->
              At(x, k) * x[1] + At(x, k - 1) * x[2] + At(x, k - 2) * x[3]
              + At(x, k - 3) * x[4] + At(x, k - 4) * x[5]],
          9)

\* P > n * 2^112 for P of ten limbs
above(P, n) ==
    \/ P[9] + P[10] * Base > n
    \/ P[9] + P[10] * Base = n /\ \E i \in 1 .. 8 : P[i] # 0

\* x, or x - 1 when x * x > n * 2^112
root_below(x, n) ==
    IF above(nrm(squares(x), 1, 0), n)
    THEN limbs(nrm(<<x[1] - 1, x[2], x[3], x[4], x[5]>>, 1, 0), 5)
    ELSE x

\* floor(sqrt(n) * 2^56) for a non-square n from r1 > sqrt(n) * 2^20 that
\* is within 2^-20 of it in proportion: two of Newton's steps from r1 * 2^36
\* come within 1 above it
root_from(N, n, r1) ==
    root_below(newton_step(N,
                   newton_step(N, shl(<<r1 % Base, r1 \div Base>>, 36, 5))),
               n)

\* the double nearest sqrt(n) for a non-square n, which lies above
\* floor(sqrt(n) * 2^56) / 2^56
sqrt_from(n, r1) ==
    round53(1, root_from(<<0, 0, 0, 0, 0, 0, 0, 0, n>>, n, r1), -56, TRUE)

\* from r0 = floor(sqrt(n) * 2^10): Newton's step in integers, rounded up
sqrt_near(n, r0) ==
    sqrt_from(n, r0 * 1024 + (((n * 1024 * 1024 - r0 * r0) * 512) \div r0) + 1)

sqrt_root(n, r) ==
    IF r * r = n THEN from_int(r)
    ELSE sqrt_near(n, ISqrt(n * 1024 * 1024))

\* np.sqrt of the integer n, 0 <= n < 2048
sqrt_int(n) == IF n = 0 THEN Zero ELSE sqrt_root(n, ISqrt(n))

\* int(a) for a double 0 <= a < 2^28
floor_nonneg(a) ==
    IF a[1] = 0 \/ 0 - a[3] >= 53 THEN 0
    ELSE shr(a[2], 0 - a[3], 4)[1] + shr(a[2], 0 - a[3], 4)[2] * Base

\* a < n for a double a and an integer n
less_int(a, n) == sub(a, from_int(n))[1] < 0

\* line 32: frame_mask = alpha > 0
frame_mask(img) == {pos \in DOMAIN img.px : img.px[pos][4] > 0}

\* line 36, squared: distance_transform_edt(frame_mask) gives each
\* foreground pixel its distance to the nearest pixel outside the mask and
\* 0 to the others. When the mask has no pixel outside it, scipy's feature
\* transform finds no background and leaves the nearest-background index of
\* every pixel at (-1, 0), so the distance is that to row -1, column 0.
distance_sq(img, pos) ==
    LET bg == DOMAIN img.px \ frame_mask(img)
    IN  IF pos \in bg THEN 0
        ELSE IF bg = {}
        THEN (pos[1] + 1) * (pos[1] + 1) + pos[2] * pos[2]
        ELSE SetMin({(pos[1] - b[1]) * (pos[1] - b[1])
                     + (pos[2] - b[2]) * (pos[2] - b[2]) : b \in bg})

\* lines 29, 51, 52, doubled: 2 * (i - height / 2) and 2 * (j - width / 2)
dy2(img, pos) == 2 * pos[1] - img.h
dx2(img, pos) == 2 * pos[2] - img.w

\* line 55, squared and times four: (2 * dist_to_center)^2
dist_to_center_sq4(img, pos) ==
    dx2(img, pos) * dx2(img, pos) + dy2(img, pos) * dy2(img, pos)

\* line 55, doubled and scaled: 2 * Scale * dist_to_center
dist_to_center_s2(img, pos) ==
    ISqrt(dist_to_center_sq4(img, pos) * Scale * Scale)

\* line 55: np.sqrt(dx*dx + dy*dy); the sum is a quarter of an integer and
\* exact, and the root of a quarter is half the root
dist_to_center(img, pos) == halve(sqrt_int(dist_to_center_sq4(img, pos)))

\* line 57: dist_to_center < 1e-6; the distance is 0 or at least 1/2
at_center(img, pos) == dx2(img, pos) = 0 /\ dy2(img, pos) = 0

\* a plausible slip: the band taken one pixel deeper than asked
in_fill_wide(img, pos, shrink) ==
    distance_sq(img, pos) > (shrink + 1) * (shrink + 1)

\* line 69: distance_from_edge[i, j] > frame_shrink_pixels; the root of an
\* integer exceeds shrink exactly when the integer exceeds its square
in_fill(img, pos, shrink) == distance_sq(img, pos) > shrink * shrink

\* line 75: distance_from_edge[i, j] / frame_shrink_pixels
shrink_factor(img, pos, shrink) ==
    fdiv(sqrt_int(distance_sq(img, pos)), from_int(shrink))

\* line 78: frame_shrink_pixels * (1 - shrink_factor)
displacement(img, pos, shrink) ==
    mul(from_int(shrink), sub(One, shrink_factor(img, pos, shrink)))

\* lines 81-82: (1 - displacement / dist_to_center)
pull(img, pos, shrink) ==
    sub(One, fdiv(displacement(img, pos, shrink), dist_to_center(img, pos)))

\* lines 29, 51-52, 81-85: center + d * k for the extent n, where
\* center = n / 2 and d = d2 / 2
source(n, d2, k) == add(halve(from_int(n)), mul(halve(from_int(d2)), k))

\* lines 81, 84
source_y(img, pos, shrink) ==
    source(img.h, dy2(img, pos), pull(img, pos, shrink))

\* lines 82, 85
source_x(img, pos, shrink) ==
    source(img.w, dx2(img, pos), pull(img, pos, shrink))

\* line 88: 0 <= source_y < height-1 and 0 <= source_x < width-1
in_bounds(img, sy, sx) ==
    /\ sy[1] >= 0 /\ less_int(sy, img.h - 1)
    /\ sx[1] >= 0 /\ less_int(sx, img.w - 1)

\* line 90: int(source_y)
whole(s) == floor_nonneg(s)

\* line 93: source_y - y0
fraction(s) == sub(s, from_int(whole(s)))

\* a significand's 24 highest bits, gone up when the 29 bits below are more
\* than half a unit, or half a unit and the 24 bits are odd
round24(m, q) ==
    IF m[3] % 2 = 1 /\ (m[2] # 0 \/ m[1] # 0 \/ q % 2 = 1) THEN q + 1 ELSE q

\* the integer part of q * 2^e, cut at 255
clipped(q, e) ==
    IF e >= 8 THEN 255
    ELSE IF e >= 0 THEN Min(255, q * (2 ^ e))
    ELSE IF 0 - e >= 25 THEN 0
    ELSE Min(255, q \div (2 ^ (0 - e)))

\* lines 101 and 104: the double a stored as float32 (nearest, ties to
\* even), np.clip to 0 .. 255, then the cast to uint8, which truncates
to_uint8(a) ==
    IF a[1] <= 0 THEN 0
    ELSE clipped(round24(a[2], a[2][4] * 8192 + (a[2][3] \div 2)), a[3] + 29)

\* lines 97-100: the four products summed from left to right, each product
\* taken from left to right, for gy = 1 - fy and gx = 1 - fx
weighted(p00, p01, p10, p11, fy, fx, gy, gx) ==
    add(add(add(mul(mul(from_int(p00), gy), gx),
                mul(mul(from_int(p01), gy), fx)),
            mul(mul(from_int(p10), fy), gx)),
        mul(mul(from_int(p11), fy), fx))

\* lines 97-104 for one channel
interpolate(p00, p01, p10, p11, fy, fx) ==
    to_uint8(weighted(p00, p01, p10, p11, fy, fx, sub(One, fy), sub(One, fx)))

\* lines 90-101 for channel c, then line 104
bilinear(img, sy, sx, c) ==
    LET y0 == whole(sy)
        x0 == whole(sx)
        y1 == y0 + 1
        x1 == x0 + 1
    IN  interpolate(img.px[<<y0, x0>>][c], img.px[<<y0, x1>>][c],
                    img.px[<<y1, x0>>][c], img.px[<<y1, x1>>][c],
                    fraction(sy), fraction(sx))

\* lines 88-101 at the sampling position (sy, sx)
sampled(img, sy, sx) ==
    IF in_bounds(img, sy, sx)
    THEN <<bilinear(img, sy, sx, 1), bilinear(img, sy, sx, 2),
           bilinear(img, sy, sx, 3), bilinear(img, sy, sx, 4)>>
    ELSE Transparent

\* lines 81-101 with the factor k of lines 81-82
sampled_with(img, pos, k) ==
    sampled(img, source(img.h, dy2(img, pos), k),
            source(img.w, dx2(img, pos), k))

\* a band pixel: lines 73-101. With frame_shrink_pixels = 0 the division of
\* line 75 gives inf, the displacement and the position are nan, and line 88
\* is false
band_pixel(img, pos, shrink) ==
    IF shrink = 0 THEN Transparent
    ELSE sampled_with(img, pos, pull(img, pos, shrink))

\* the body of the loops of lines 45-101 for pixel pos
thin_pixel(img, pos, shrink) ==
    IF pos \notin frame_mask(img) THEN Transparent
    ELSE IF at_center(img, pos) THEN img.px[pos]
    ELSE IF in_fill(img, pos, shrink) THEN img.px[pos]
    ELSE band_pixel(img, pos, shrink)

\* thin_hex_frame, lines 11-108
thin_hex_frame(img, shrink) ==
    MkImg(img.w, img.h,
          [pos \in DOMAIN img.px |-> thin_pixel(img, pos, shrink)])

(***************************************************************************)
(* Thinner runs: a raster of one background value with a few dots          *)
(***************************************************************************)
MaxThinW == 4
MaxThinH == 4
MaxThinArea == 16
MaxThinDots == 1
MaxShrink == 3

ThinBg == { <<0, 0, 0, 0>>, <<200, 100, 50, 255>>, <<240, 9, 9, 0>> }
ThinDot == { <<40, 80, 120, 128>>, <<240, 9, 9, 0>> }

ThinRaster(w, h, dots, bg, val) ==
    MkImg(w, h,
          [pos \in Pos(w, h) |->
              IF pos[1] * w + pos[2] \in dots
              THEN val[pos[1] * w + pos[2]]
              ELSE bg])

InitThin ==
    /\ \E w \in 1 .. MaxThinW, h \in 1 .. MaxThinH :
          /\ w * h <= MaxThinArea
          /\ \E dots \in SmallSubsets(w * h, MaxThinDots) :
                \E bg \in ThinBg :
                   \E val \in [dots -> ThinDot] :
                      thIn = ThinRaster(w, h, dots, bg, val)
    /\ thShrink \in 0 .. MaxShrink
    /\ thOut = NoImg
    /\ thDone = FALSE
    /\ ClIdle
    /\ ExIdle
    /\ IpIdle
    /\ DrIdle

\* thin_hex_frame(input_path, output_path, frame_shrink_pixels)
ThinHexFrame ==
    /\ ~ thDone
    /\ thOut' = thin_hex_frame(thIn, thShrink)
    /\ thDone' = TRUE
    /\ UNCHANGED <<thIn, thShrink>>
    /\ UNCHANGED clVars
    /\ UNCHANGED exVars
    /\ UNCHANGED ipVars
    /\ UNCHANGED drVars

NextThin == ThinHexFrame

SpecThin == InitThin /\ [][NextThin]_vars

\* thin_hex_frame called with frame_shrink_pixels = 0
InitThinZero == InitThin /\ thShrink = 0

SpecThinZero == InitThinZero /\ [][NextThin]_vars

(***************************************************************************)
(* Claims about thin_hex_frame                                             *)
(***************************************************************************)
\* C9 as stated: with frame_shrink_pixels = 0 the output equals the input
\* in all four channels of every pixel, pixels of alpha 0 and non-zero RGB
\* included.
C9_Identity ==
    (thDone /\ thShrink = 0) => thOut = thIn

\* C9 amended: with frame_shrink_pixels = 0 the output has the input's
\* dimensions, every pixel of alpha > 0 keeps its four channels, and every
\* pixel of alpha 0 comes out as (0,0,0,0).
C9_IdentityOnForeground ==
    (thDone /\ thShrink = 0) =>
        /\ thOut.w = thIn.w
        /\ thOut.h = thIn.h
        /\ DOMAIN thOut.px = DOMAIN thIn.px
        /\ \A pos \in DOMAIN thIn.px :
              thOut.px[pos] = (IF thIn.px[pos][4] > 0 THEN thIn.px[pos]
                               ELSE <<0, 0, 0, 0>>)

\* a raster with opaque pixels and a transparent one of non-zero RGB was
\* thinned by 0
C9_Witness ==
    /\ thDone
    /\ thShrink = 0
    /\ \E pos \in DOMAIN thIn.px :
          thIn.px[pos][4] = 255 /\ thOut.px[pos] = thIn.px[pos]
    /\ \E pos \in DOMAIN thIn.px :
          thIn.px[pos][4] = 0 /\ thIn.px[pos][1] # 0 /\ thOut.px[pos][1] = 0

Uniform(img) ==
    \A p, q \in DOMAIN img.px : img.px[p] = img.px[q]

\* C10: thinning by 1 or more keeps a raster of a single RGBA value as it
\* is, in every pixel, those of the last row and column included.
C10_UniformPreserved ==
    (thDone /\ thShrink >= 1 /\ Uniform(thIn)) => thOut = thIn

\* a position in 1/Scale of a pixel, cut towards 0
scaled_whole(a) ==
    a[1] * floor_nonneg(mul(<<Abs(a[1]), a[2], a[3]>>, from_int(Scale)))

\* lines 57-85: the position a foreground pixel is written from, in
\* 1/Scale of a pixel: the pixel itself when it is copied (lines 57-60,
\* 69-71), the sampling position otherwise
written_from_s(img, pos, shrink) ==
    IF at_center(img, pos) \/ in_fill(img, pos, shrink)
    THEN <<pos[1] * Scale, pos[2] * Scale>>
    ELSE <<scaled_whole(source_y(img, pos, shrink)),
           scaled_whole(source_x(img, pos, shrink))>>

\* how much nearer the centre (height/2, width/2) of line 29 the position a
\* pixel is written from lies than the pixel itself, doubled and scaled
inward_pull_s2(img, pos, shrink) ==
    LET from == written_from_s(img, pos, shrink)
        fy2 == 2 * from[1] - img.h * Scale
        fx2 == 2 * from[2] - img.w * Scale
    IN  dist_to_center_s2(img, pos) - ISqrt(fy2 * fy2 + fx2 * fx2)

AllForeground(img) == frame_mask(img) = DOMAIN img.px

Perimeter(img) ==
    {pos \in DOMAIN img.px :
        pos[1] \in {0, img.h - 1} \/ pos[2] \in {0, img.w - 1}}

\* C11: on a 4x4 raster with every pixel in the mask, thinned by 1, the four
\* inner pixels are copied unchanged and each of the twelve perimeter pixels
\* is written from a position one pixel nearer the centre (2,2) than the
\* pixel itself (to within 4/Scale of a pixel, the rounding of the scaled
\* positions).
C11_PerimeterPulledByShrink ==
    (thDone /\ thShrink = 1 /\ thIn.w = 4 /\ thIn.h = 4 /\ AllForeground(thIn))
    =>
        /\ \A pos \in DOMAIN thIn.px \ Perimeter(thIn) :
              thOut.px[pos] = thIn.px[pos]
        /\ \A pos \in Perimeter(thIn) :
              /\ inward_pull_s2(thIn, pos, 1) >= 2 * Scale - 4
              /\ inward_pull_s2(thIn, pos, 1) <= 2 * Scale + 4

\* the pixels of lines 73-101: in the mask, off the centre, not interior fill
InBand(img, pos, shrink) ==
    /\ pos \in frame_mask(img)
    /\ ~ at_center(img, pos)
    /\ ~ in_fill(img, pos, shrink)

\* a <= n for a double a and an integer n
at_most(a, n) == sub(a, from_int(n))[1] <= 0

\* a position inside the closed rectangle [0, W-1] x [0, H-1]
InClosedRect(img, sy, sx) ==
    /\ sy[1] >= 0 /\ at_most(sy, img.h - 1)
    /\ sx[1] >= 0 /\ at_most(sx, img.w - 1)

\* the bilinear sample at a position of the closed rectangle, channel c: on
\* the last row or column the neighbour beyond the raster has weight 0
SampleClosed(img, sy, sx, c) ==
    LET y0 == whole(sy)
        x0 == whole(sx)
        y1 == Min(y0 + 1, img.h - 1)
        x1 == Min(x0 + 1, img.w - 1)
    IN  interpolate(img.px[<<y0, x0>>][c], img.px[<<y0, x1>>][c],
                    img.px[<<y1, x0>>][c], img.px[<<y1, x1>>][c],
                    fraction(sy), fraction(sx))

\* what a band pixel sampling at (sy, sx) receives when the rectangle is
\* closed
SampledClosed(img, sy, sx) ==
    IF InClosedRect(img, sy, sx)
    THEN <<SampleClosed(img, sy, sx, 1), SampleClosed(img, sy, sx, 2),
           SampleClosed(img, sy, sx, 3), SampleClosed(img, sy, sx, 4)>>
    ELSE Transparent

\* C15: a band pixel whose sampling position lies inside the closed
\* rectangle [0,W-1] x [0,H-1], the last row and column included, receives
\* the bilinear sample of the input there; a band pixel whose sampling
\* position lies outside it is left (0,0,0,0).
C15_ClosedSamplingRectangle ==
    thDone =>
        \A pos \in DOMAIN thIn.px :
            InBand(thIn, pos, thShrink) =>
                thOut.px[pos] = SampledClosed(thIn,
                                              source_y(thIn, pos, thShrink),
                                              source_x(thIn, pos, thShrink))

(***************************************************************************)
(* Halo runs: clean_hex_tile on rasters large enough to have pixels whose  *)
(* four neighbours all lie on the canvas: one background value and a few   *)
(* dots                                                                    *)
(***************************************************************************)
MaxHaloW == 3
MaxHaloH == 3
MaxHaloArea == 9
MaxHaloDots == 1

HaloPalette ==
    { <<255, 255, 255, 255>>,   \* white, opaque: matted by line 48
      <<239, 255, 255, 255>>,   \* light, not white, opaque
      <<201, 200, 200, 60>>,    \* light, alpha 60
      <<200, 200, 200, 255>>,   \* not light (sum 600), opaque
      <<10, 20, 30, 49>> }      \* dark, alpha below 50

HaloRaster(w, h, dots, bg, val) ==
    MkImg(w, h,
          [pos \in Pos(w, h) |->
              IF pos[1] * w + pos[2] \in dots
              THEN val[pos[1] * w + pos[2]]
              ELSE bg])

InitHalo ==
    /\ \E w \in 1 .. MaxHaloW, h \in 1 .. MaxHaloH :
          /\ w * h <= MaxHaloArea
          /\ \E dots \in SmallSubsets(w * h, MaxHaloDots) :
                \E bg \in HaloPalette :
                   \E val \in [dots -> HaloPalette] :
                      clIn = HaloRaster(w, h, dots, bg, val)
    /\ clPrev = clIn
    /\ clFile = clIn
    /\ clAlphaA = AlphaPlane(clIn)
    /\ clAlphaP1 = AlphaPlane(clIn)
    /\ clAlphaB = AlphaPlane(clIn)
    /\ clClean = clIn
    /\ clRets = <<>>
    /\ ExIdle
    /\ ThIdle
    /\ IpIdle
    /\ DrIdle

SpecHalo == InitHalo /\ [][NextClean]_vars

(***************************************************************************)
(* Claims about the halo passes                                            *)
(***************************************************************************)
\* the four axis-aligned neighbours of a position, on the canvas or not
Neighbours4(pos) ==
    { <<pos[1] - 1, pos[2]>>, <<pos[1] + 1, pos[2]>>,
      <<pos[1], pos[2] - 1>>, <<pos[1], pos[2] + 1>> }

\* avgBrightness > 200
Light(p) == p[1] + p[2] + p[3] > 600

\* a light pixel that the first pass clamped and that touches a pixel the
\* matte step set to alpha 0
ClampedAtMatte(n) ==
    /\ Light(clPrev.px[n])
    /\ clAlphaP1[n] < clAlphaA[n]
    /\ \E m \in Neighbours4(n) \cap DOMAIN clPrev.px :
          clPrev.px[m][4] > 0 /\ clAlphaA[m] = 0

\* a light pixel of alpha > 100 whose four neighbours all lie on the canvas
\* with alpha >= 50 when the first pass starts, one of them ClampedAtMatte
SecondLayer(pos) ==
    /\ Light(clPrev.px[pos])
    /\ clAlphaA[pos] > 100
    /\ Neighbours4(pos) \subseteq DOMAIN clPrev.px
    /\ \A n \in Neighbours4(pos) : clAlphaA[n] >= 50
    /\ \E n \in Neighbours4(pos) : ClampedAtMatte(n)

\* C14: the two passes damp a halo two pixels deep: a light pixel of
\* alpha > 100 whose four neighbours all have alpha >= 50 at the start of
\* pass one, one of them a light pixel that pass one clamped because it
\* touches a matted pixel, has alpha at most 100 after pass two.
C14_SecondLayerDamped ==
    CleanRan =>
        \A pos \in DOMAIN clPrev.px :
            SecondLayer(pos) => clAlphaB[pos] <= 100

\* C16: the halo passes touch only alpha and only damp: after them every
\* pixel has the input's R, G, B; no pixel with alpha > 0 after the matte
\* step has alpha 0; no alpha is increased; and a pixel's alpha differs from
\* its alpha after the matte step only if the pixel has avgBrightness > 200,
\* alpha > 0 and a 4-neighbour (off the canvas counting as alpha 0) with
\* alpha < 50, in which case it becomes min(alpha, 100).
C16_HaloDampsOnly ==
    CleanRan =>
        /\ DOMAIN clClean.px = DOMAIN clPrev.px
        /\ \A pos \in DOMAIN clPrev.px :
              /\ clClean.px[pos][1] = clPrev.px[pos][1]
              /\ clClean.px[pos][2] = clPrev.px[pos][2]
              /\ clClean.px[pos][3] = clPrev.px[pos][3]
              /\ clClean.px[pos][4] = clAlphaB[pos]
              /\ clAlphaA[pos] > 0 => clAlphaB[pos] > 0
              /\ clAlphaB[pos] <= clAlphaA[pos]
              /\ clAlphaB[pos] # clAlphaA[pos] =>
                    /\ Light(clPrev.px[pos])
                    /\ clAlphaA[pos] > 0
                    /\ \E n \in Neighbours4(pos) :
                          n \notin DOMAIN clPrev.px \/ clAlphaA[n] < 50
                    /\ clAlphaB[pos] = Min(clAlphaA[pos], 100)

\* a call damped to 100 a pixel whose four neighbours are all on the canvas,
\* left a light opaque border pixel's neighbour of alpha 49 as it was, and
\* left the colours alone
C16_Witness ==
    /\ CleanRan
    /\ \E pos \in DOMAIN clPrev.px :
          /\ Neighbours4(pos) \subseteq DOMAIN clPrev.px
          /\ clAlphaA[pos] = 255
          /\ clAlphaB[pos] = 100
          /\ \E n \in Neighbours4(pos) :
                clAlphaA[n] = 49 /\ clAlphaB[n] = 49
          /\ clClean.px[pos][1] = 239

(***************************************************************************)
(* The halo pass performed pixel by pixel on the running alpha array, in   *)
(* any visiting order: the test of lines 57-66 and the assignment of line  *)
(* 67 applied to one pixel at a time, each reading the alphas the earlier  *)
(* visits of the same pass have left.                                      *)
(***************************************************************************)
MaxIpW == 3
MaxIpH == 3
MaxIpArea == 9
MaxIpDots == 1

IpPalette ==
    { <<255, 255, 255, 255>>,   \* white, opaque: matted by line 48
      <<239, 255, 255, 255>>,   \* light, not white, opaque
      <<201, 200, 200, 60>>,    \* light, alpha 60
      <<10, 20, 30, 49>> }      \* dark, alpha below 50

InitInPlace ==
    /\ \E w \in 1 .. MaxIpW, h \in 1 .. MaxIpH :
          /\ w * h <= MaxIpArea
          /\ \E dots \in SmallSubsets(w * h, MaxIpDots) :
                \E bg \in IpPalette :
                   \E val \in [dots -> IpPalette] :
                      ipImg = HaloRaster(w, h, dots, bg, val)
    /\ ipStart = MatteAlpha(ipImg)
    /\ ipAlpha = ipStart
    /\ ipTodo = DOMAIN ipImg.px
    /\ ClIdle
    /\ ExIdle
    /\ ThIdle
    /\ DrIdle

\* lines 57-67 for the single pixel pos, on the running array
visit_pixel(img, al, pos) ==
    [al EXCEPT ![pos] = IF is_light_edge(img, al, pos)
                        THEN Min(al[pos], 100)
                        ELSE al[pos]]

VisitPixel ==
    /\ \E pos \in ipTodo :
          /\ ipAlpha' = visit_pixel(ipImg, ipAlpha, pos)
          /\ ipTodo' = ipTodo \ {pos}
    /\ UNCHANGED <<ipImg, ipStart>>
    /\ UNCHANGED clVars
    /\ UNCHANGED exVars
    /\ UNCHANGED thVars
    /\ UNCHANGED drVars

NextInPlace == VisitPixel

SpecInPlace == InitInPlace /\ [][NextInPlace]_vars

\* C17: a halo pass computed pixel by pixel in place on the running alpha
\* array, in any visiting order, ends with the alpha plane that the pass
\* computed from the alpha as it stood when the pass started gives.
C17_InPlaceEqualsSnapshot ==
    (ipImg # NoImg /\ ipTodo = {}) => ipAlpha = HaloPass(ipImg, ipStart)

\* a pass has visited every pixel of a raster in which two neighbouring
\* pixels were both clamped, so the later of the two read the clamped alpha
\* of the earlier, and a light opaque pixel next to a clamped one kept its
\* alpha
C17_Witness ==
    /\ ipImg # NoImg
    /\ ipTodo = {}
    /\ \E pos \in DOMAIN ipImg.px :
          \E n \in Neighbours4(pos) \cap DOMAIN ipImg.px :
             ipAlpha[pos] < ipStart[pos] /\ ipAlpha[n] < ipStart[n]
    /\ \E pos \in DOMAIN ipImg.px :
          /\ Light(ipImg.px[pos])
          /\ ipAlpha[pos] = 255
          /\ \E n \in Neighbours4(pos) \cap DOMAIN ipImg.px :
                ipAlpha[n] < ipStart[n]

(***************************************************************************)
(* Claims about an empty result of extract_hex_tiles                       *)
(***************************************************************************)
\* the pixels the four cells cover: the last column of an odd width and the
\* last row of an odd height belong to no cell
Covered(img) ==
    {pos \in DOMAIN img.px :
        /\ pos[1] < rows * (img.h \div rows)
        /\ pos[2] < cols * (img.w \div cols)}

\* C19 as stated: for every canvas size, sizes not divisible by the grid
\* included, an empty result means the canvas has no pixel of alpha > 20.
C19_EmptyMeansNoContent ==
    (exDone /\ exTiles = <<>>) =>
        \A pos \in DOMAIN exIn.px : exIn.px[pos][4] <= 20

\* C19 amended: the result is empty exactly when no pixel of alpha > 20
\* lies in the area the four cells cover, columns 0 .. 2*(W div 2)-1 and
\* rows 0 .. 2*(H div 2)-1; for even W and H that area is the whole canvas.
C19_EmptyIffNoCoveredContent ==
    exDone =>
        /\ (exTiles = <<>>) <=>
              (\A pos \in Covered(exIn) : exIn.px[pos][4] <= 20)
        /\ (exIn.w % cols = 0 /\ exIn.h % rows = 0) =>
              Covered(exIn) = DOMAIN exIn.px

\* a canvas three pixels wide whose only content lies in its last column
\* was split into no tile
C19_Witness ==
    /\ exDone
    /\ exIn.w = 3
    /\ exIn.h >= 2
    /\ \E pos \in DOMAIN exIn.px : pos[2] = 2 /\ exIn.px[pos][4] > 20
    /\ \A pos \in Covered(exIn) : exIn.px[pos][4] <= 20
    /\ exTiles = <<>>

(***************************************************************************)
(* The batch drivers: process_all_hex_frames (thin_frame_hex.py),          *)
(* clean_folder (clean_hex_tiles.py), process_folder                       *)
(* (extract_hex_tiles.py).                                                 *)
(*                                                                         *)
(* A directory maps file names to rasters. A name <<b, k>> stands for      *)
(* "<b>" followed by k times "_backup" and ".png"; <<b, k, i>> in the      *)
(* output directory of process_folder stands for "hex_<name>_<i>.png".     *)
(* os.listdir gives the names in no particular order, so the loop takes    *)
(* the listed files in any order.                                          *)
(***************************************************************************)
MaxFiles == 2
MaxBatchRuns == 2

\* frame_shrink_pixels=3, the default of process_all_hex_frames
frame_shrink_pixels == 3

\* a file that holds no image: Image.open raises on it
Unreadable == NoImg

BatchContents ==
    { Unreadable,
      MkImg(1, 1, [pos \in Pos(1, 1) |-> <<200, 100, 50, 255>>]),
      MkImg(2, 2, [pos \in Pos(2, 2) |-> <<239, 255, 255, 255>>]) }

\* thin_frame_hex.py line 140: "<name>_backup.png"
backup_path(name) == <<name[1], name[2] + 1>>

\* saving a raster at a path of a directory
WriteFile(dir, name, content) ==
    [n \in DOMAIN dir \cup {name} |-> IF n = name THEN content ELSE dir[n]]

\* extract_hex_tiles.py lines 85-90: every tile saved under its own name
RECURSIVE WriteTiles(_, _, _)
WriteTiles(dir, name, tiles) ==
    IF tiles = <<>> THEN dir
    ELSE WriteTiles(WriteFile(dir, <<name[1], name[2], Head(tiles).index>>,
                              Head(tiles).img),
                    name, Tail(tiles))

InitBatch ==
    /\ \E names \in SUBSET ((1 .. MaxFiles) \X {0}) :
          \E dir \in [names -> BatchContents] :
             drDir = dir
    /\ drDriver \in {"thin", "clean", "extract"}
    /\ drOutDir \in BOOLEAN
    /\ drDriver = "extract" => drOutDir
    /\ drInit = drDir
    /\ drPre = drDir
    /\ drOut = <<>>
    /\ drTodo = {}
    /\ drDone = {}
    /\ drPhase = "idle"
    /\ drRuns = 0
    /\ ClIdle
    /\ ExIdle
    /\ ThIdle
    /\ IpIdle

\* the start of a driver up to its loop: the files are listed and, when
\* there is none, thin and clean return at once
StartRun ==
    /\ drPhase # "loop"
    /\ drRuns < MaxBatchRuns
    /\ drRuns' = drRuns + 1
    /\ drPre' = drDir
    /\ drTodo' = DOMAIN drDir
    /\ drDone' = {}
    /\ drPhase' = IF DOMAIN drDir = {} THEN "returned" ELSE "loop"
    /\ UNCHANGED <<drDriver, drOutDir, drInit, drDir, drOut>>
    /\ UNCHANGED clVars
    /\ UNCHANGED exVars
    /\ UNCHANGED thVars
    /\ UNCHANGED ipVars

\* process_all_hex_frames, lines 111-131
ProcessAllHexFrames ==
    /\ drDriver = "thin"
    /\ StartRun

\* clean_folder, lines 105-119
CleanFolder ==
    /\ drDriver = "clean"
    /\ StartRun

\* process_folder, lines 99-114
ProcessFolder ==
    /\ drDriver = "extract"
    /\ StartRun

\* the loop has taken file f and its body has ended without an exception
\* reaching the loop
NextFile(f) ==
    /\ drTodo' = drTodo \ {f}
    /\ drPhase' = IF drTodo = {f} THEN "returned" ELSE "loop"

\* an exception has left the loop: the driver ends with the files of
\* drTodo not looked at
Raised ==
    /\ drPhase' = "raised"
    /\ UNCHANGED <<drTodo, drDone, drDir, drOut>>

\* process_all_hex_frames, one iteration of the loop of lines 133-147;
\* nothing catches what Image.open or thin_hex_frame raises
ThinFile ==
    /\ drDriver = "thin"
    /\ drPhase = "loop"
    /\ \E f \in drTodo :
          IF drOutDir
          THEN IF drDir[f] = Unreadable
               THEN Raised
               ELSE /\ drOut' = WriteFile(drOut, f,
                                   thin_hex_frame(drDir[f], frame_shrink_pixels))
                    /\ drDone' = drDone \cup {f}
                    /\ NextFile(f)
                    /\ UNCHANGED drDir
          ELSE IF drDir[f] = Unreadable
               THEN Raised
               ELSE /\ drDir' =
                         WriteFile(IF backup_path(f) \in DOMAIN drDir
                                   THEN drDir
                                   ELSE WriteFile(drDir, backup_path(f), drDir[f]),
                                   f,
                                   thin_hex_frame(drDir[f], frame_shrink_pixels))
                    /\ drDone' = drDone \cup {f}
                    /\ NextFile(f)
                    /\ UNCHANGED drOut
    /\ UNCHANGED <<drDriver, drOutDir, drInit, drPre, drRuns>>
    /\ UNCHANGED clVars
    /\ UNCHANGED exVars
    /\ UNCHANGED thVars
    /\ UNCHANGED ipVars

\* clean_folder, one iteration of the loop of lines 121-130: the except
\* clause prints the error and the loop goes on; no backup is written
CleanFile ==
    /\ drDriver = "clean"
    /\ drPhase = "loop"
    /\ \E f \in drTodo :
          /\ NextFile(f)
          /\ IF drDir[f] = Unreadable
             THEN UNCHANGED <<drDone, drDir, drOut>>
             ELSE /\ drDone' = drDone \cup {f}
                  /\ IF drOutDir
                     THEN /\ drOut' = WriteFile(drOut, f,
                                          clean_hex_tile(drDir[f]).saved)
                          /\ UNCHANGED drDir
                     ELSE /\ drDir' = WriteFile(drDir, f,
                                          clean_hex_tile(drDir[f]).saved)
                          /\ UNCHANGED drOut
    /\ UNCHANGED <<drDriver, drOutDir, drInit, drPre, drRuns>>
    /\ UNCHANGED clVars
    /\ UNCHANGED exVars
    /\ UNCHANGED thVars
    /\ UNCHANGED ipVars

\* process_folder, one iteration of the loop of lines 116-121
ExtractFile ==
    /\ drDriver = "extract"
    /\ drPhase = "loop"
    /\ \E f \in drTodo :
          /\ NextFile(f)
          /\ IF drDir[f] = Unreadable
             THEN UNCHANGED <<drDone, drOut>>
             ELSE /\ drDone' = drDone \cup {f}
                  /\ drOut' = WriteTiles(drOut, f, extract_hex_tiles(drDir[f]))
    /\ UNCHANGED <<drDriver, drOutDir, drInit, drPre, drDir, drRuns>>
    /\ UNCHANGED clVars
    /\ UNCHANGED exVars
    /\ UNCHANGED thVars
    /\ UNCHANGED ipVars

NextBatch ==
    \/ ProcessAllHexFrames
    \/ ThinFile
    \/ CleanFolder
    \/ CleanFile
    \/ ProcessFolder
    \/ ExtractFile

SpecBatch == InitBatch /\ [][NextBatch]_vars

(***************************************************************************)
(* Claims about the batch drivers                                          *)
(***************************************************************************)
RunEnded == drRuns >= 1 /\ drPhase \in {"returned", "raised"}

\* C12: in every batch driver, whatever files fail, every listed file that
\* does not fail has been processed when the run ends: a failure on one
\* file never keeps a later file from being processed.
C12_IsolateAndContinue ==
    RunEnded =>
        \A f \in DOMAIN drPre : drPre[f] # Unreadable => f \in drDone

\* C13: in a run with no output directory, of the cleaning driver as of the
\* thinning driver, when the result is written over a source file a backup
\* copy holding the content the file had when the run started is in place.
C13_BackupBeforeOverwrite ==
    [][ \A f \in drDone' \ drDone :
           (~ drOutDir /\ drDriver \in {"thin", "clean"}) =>
               /\ backup_path(f) \in DOMAIN drDir'
               /\ drDir'[backup_path(f)] = drPre[f] ]_vars

\* C18: in overwrite mode of the thinning driver, after any number of runs
\* over the same directory, the backup of every file the directory held
\* before the first run still holds the content that file had then.
C18_BackupNeverModified ==
    (drDriver = "thin" /\ ~ drOutDir) =>
        \A f \in DOMAIN drInit :
            backup_path(f) \in DOMAIN drDir =>
                drDir[backup_path(f)] = drInit[f]

====
